---------------------------- MODULE Spec2Model ----------------------------
(***************************************************************************)
(* A model of src/src/weather.py: the Weather class, which fetches the     *)
(* current observation of a station from the NWS XML feed, parses it and   *)
(* formats its fields.                                                     *)
(*                                                                         *)
(* Python values are modelled as follows.                                  *)
(*   - a str is a sequence of one-character strings (so that float() and   *)
(*     the f-strings can be modelled character by character); the fixed    *)
(*     prefix of the URL and the labels of __str__ are one item each;      *)
(*   - an attribute holding None, a str or nothing at all (never assigned) *)
(*     is a record [t, s] with t in {"unset", "None", "str"};              *)
(*   - a call either returns a value or raises: [ret, raised], where       *)
(*     raised = "" means the call returned.                                *)
(*   - an XML text is a sequence of tokens (start tag, character data, end *)
(*     tag); ET.fromstring is modelled by parsing that sequence.           *)
(***************************************************************************)
EXTENDS Integers, Sequences, FiniteSets, TLC

VARIABLES
    phase,      \* "new": before Weather(...); "live": the caller holds the object;
                \* "dead": the constructor raised, the caller holds no object
    self,       \* the attributes _location, weather_observation_url,
                \* weather_observation_raw and root of the object
    gets,       \* history: number of requests.get calls issued
    sets,       \* history: number of set_location invocations
    reads,      \* history: number of accessor calls since the last set_location
    lastSet,    \* history: the most recent set_location and how it ended
    seen,       \* history: per accessor, how its latest call since the last
                \* set_location ended
    writer,     \* history: per attribute, the set_location call that assigned it last
    everBound   \* history: some set_location has completed without raising

vars == <<phase, self, gets, sets, reads, lastSet, seen, writer, everBound>>

---------------------------------------------------------------------------
(* Bounds of the model. *)

\* set_location invocations in one run (the constructor's included)
MaxSets == 2
\* accessor calls between two set_location invocations
MaxReads == 2

---------------------------------------------------------------------------
(* Python values. *)

None == [t |-> "None", s |-> <<>>]
Unset == [t |-> "unset", s |-> <<>>]
Str(s) == [t |-> "str", s |-> s]

Returned(v) == [ret |-> v, raised |-> ""]
Raised(e) == [ret |-> Unset, raised |-> e]

\* weather.py:8: the station codes of LOCATIONS
LOCATIONS == {<<"K", "L", "N", "K">>, <<"K", "O", "M", "A">>}

---------------------------------------------------------------------------
(* float(text) and the f-string rendering of a float, on decimal texts.    *)
(* A float is held exactly as sign * mant / 10^scale; the feed's values    *)
(* have few digits, where float() and repr() round-trip the decimal.       *)

Digits == {"0", "1", "2", "3", "4", "5", "6", "7", "8", "9"}

DigitVal(c) ==
    CASE c = "0" -> 0 [] c = "1" -> 1 [] c = "2" -> 2 [] c = "3" -> 3
      [] c = "4" -> 4 [] c = "5" -> 5 [] c = "6" -> 6 [] c = "7" -> 7
      [] c = "8" -> 8 [] c = "9" -> 9

DigitChar(d) ==
    CASE d = 0 -> "0" [] d = 1 -> "1" [] d = 2 -> "2" [] d = 3 -> "3"
      [] d = 4 -> "4" [] d = 5 -> "5" [] d = 6 -> "6" [] d = 7 -> "7"
      [] d = 8 -> "8" [] d = 9 -> "9"

RECURSIVE Pow10(_)
Pow10(n) == IF n = 0 THEN 1 ELSE 10 * Pow10(n - 1)

\* the number written by a sequence of digits
RECURSIVE DigitsValue(_)
DigitsValue(ds) ==
    IF ds = <<>> THEN 0
    ELSE 10 * DigitsValue(SubSeq(ds, 1, Len(ds) - 1)) + DigitVal(ds[Len(ds)])

\* the digits of a natural number, at least one
RECURSIVE NatDigits(_)
NatDigits(n) ==
    IF n < 10 THEN <<DigitChar(n)>>
    ELSE NatDigits(n \div 10) \o <<DigitChar(n % 10)>>

\* float(x): x is an attribute value (None or a str).  A str converts when it
\* is [sign] digits [. digits] with at least one digit; None raises TypeError
\* and any other str raises ValueError.
float(x) ==
    IF x.t # "str" THEN [raised |-> "TypeError", neg |-> FALSE, mant |-> 0, scale |-> 0]
    ELSE
      LET s == x.s
          signed == Len(s) > 0 /\ s[1] \in {"-", "+"}
          body == IF signed THEN SubSeq(s, 2, Len(s)) ELSE s
          dots == {i \in 1..Len(body) : body[i] = "."}
          wellformed ==
              /\ \A i \in 1..Len(body) : body[i] \in Digits \cup {"."}
              /\ Cardinality(dots) <= 1
              /\ \E i \in 1..Len(body) : body[i] \in Digits
      IN  IF ~wellformed
          THEN [raised |-> "ValueError", neg |-> FALSE, mant |-> 0, scale |-> 0]
          ELSE
            LET dot == IF dots = {} THEN Len(body) + 1 ELSE CHOOSE i \in dots : TRUE
                int == SubSeq(body, 1, dot - 1)
                frac == SubSeq(body, dot + 1, Len(body))
            IN  [raised |-> "",
                 neg |-> signed /\ s[1] = "-",
                 mant |-> DigitsValue(int \o frac),
                 scale |-> Len(frac)]

\* the value with the trailing zeros of its fraction removed
RECURSIVE Normalize(_)
Normalize(f) ==
    IF f.scale > 0 /\ f.mant % 10 = 0
    THEN Normalize([f EXCEPT !.mant = f.mant \div 10, !.scale = f.scale - 1])
    ELSE f

\* the fraction digits of mant / 10^scale, padded with zeros on the left
RECURSIVE FracDigits(_, _)
FracDigits(n, width) ==
    IF width = 0 THEN <<>>
    ELSE FracDigits(n \div 10, width - 1) \o <<DigitChar(n % 10)>>

\* f"{x}" of a float x: the shortest decimal, always with a fraction part
FloatRepr(f) ==
    LET g == Normalize(f)
        p == Pow10(g.scale)
    IN  (IF g.neg THEN <<"-">> ELSE <<>>)
          \o NatDigits(g.mant \div p)
          \o <<".">>
          \o (IF g.scale = 0 THEN <<"0">> ELSE FracDigits(g.mant % p, g.scale))

---------------------------------------------------------------------------
(* XML texts and xml.etree.ElementTree.                                    *)

Open(tag) == [k |-> "open", tag |-> tag, text |-> <<>>]
Close(tag) == [k |-> "close", tag |-> tag, text |-> <<>>]
Chars(text) == [k |-> "chars", tag |-> "", text |-> text]

\* <tag>text</tag>, <tag></tag> and a document with the given content
Elem(tag, text) == <<Open(tag), Chars(text), Close(tag)>>
EmptyElem(tag) == <<Open(tag), Close(tag)>>
Document(content) ==
    <<Open("current_observation")>> \o content \o <<Close("current_observation")>>

\* The children of the root element written by tokens i..j of toks: each is
\* <tag>chars</tag> or <tag></tag> (whose text is None).  ok is FALSE when
\* the tokens are not such a sequence (no closing tag, a wrong closing tag,
\* character data outside an element).
RECURSIVE Children(_, _, _)
Children(toks, i, j) ==
    IF i > j THEN [ok |-> TRUE, children |-> <<>>]
    ELSE IF toks[i].k # "open" THEN [ok |-> FALSE, children |-> <<>>]
    ELSE IF i + 1 <= j /\ toks[i + 1].k = "close" /\ toks[i + 1].tag = toks[i].tag
    THEN LET rest == Children(toks, i + 2, j)
         IN  [ok |-> rest.ok,
              children |-> <<[t |-> "Element", tag |-> toks[i].tag, text |-> None]>>
                             \o rest.children]
    ELSE IF /\ i + 2 <= j
            /\ toks[i + 1].k = "chars"
            /\ toks[i + 2].k = "close"
            /\ toks[i + 2].tag = toks[i].tag
    THEN LET rest == Children(toks, i + 3, j)
         IN  [ok |-> rest.ok,
              children |-> <<[t |-> "Element", tag |-> toks[i].tag,
                               text |-> Str(toks[i + 1].text)]>>
                             \o rest.children]
    ELSE [ok |-> FALSE, children |-> <<>>]

\* ET.fromstring(text): TypeError when text is None (the parser is fed a
\* non-string), ParseError when the text is not one well-formed element, and
\* otherwise the root Element with its children.
fromstring(text) ==
    IF text.t # "str" THEN Raised("TypeError")
    ELSE
      LET toks == text.s
          n == Len(toks)
      IN  IF \/ n < 2
             \/ toks[1].k # "open"
             \/ toks[n].k # "close"
             \/ toks[n].tag # toks[1].tag
          THEN Raised("ParseError")
          ELSE LET c == Children(toks, 2, n - 1)
               IN  IF c.ok
                   THEN Returned([t |-> "Element", s |-> c.children])
                   ELSE Raised("ParseError")

\* element.find(tag): the first child with that tag, or None.  The element
\* is the value of self.root; when root was never assigned the attribute
\* lookup self.root raises AttributeError.
find(root, tag) ==
    IF root.t # "Element" THEN Raised("AttributeError")
    ELSE
      LET hits == {i \in 1..Len(root.s) : root.s[i].tag = tag}
      IN  IF hits = {} THEN Returned(None)
          ELSE Returned(root.s[CHOOSE i \in hits : \A j \in hits : i <= j])

\* self.root.find(tag).text: AttributeError when root is unset or when find
\* returned None; otherwise the element's text (None for an empty element).
FindText(root, tag) ==
    LET e == find(root, tag)
    IN  IF e.raised # "" THEN e
        ELSE IF e.ret.t # "Element" THEN Raised("AttributeError")
        ELSE Returned(e.ret.text)

---------------------------------------------------------------------------
(* The feed: the bodies the server may send and the outcomes of a GET.     *)

BodyKLNK ==
    Document(
        Elem("location", <<"L", "N", "K">>)
        \o Elem("weather", <<"F", "a", "i", "r">>)
        \o Elem("temp_f", <<"7", "2", ".", "0">>)
        \o Elem("temp_c", <<"2", "2", ".", "2">>)
        \o Elem("relative_humidity", <<"5", "4">>)
        \o Elem("wind_string", <<"C", "a", "l", "m">>)
        \o Elem("dewpoint_f", <<"5", "4", ".", "5">>)
        \o Elem("dewpoint_c", <<"1", "2", ".", "5">>)
        \o Elem("pressure_mb", <<"1", "0", "1", "3", ".", "2">>)
        \o Elem("pressure_in", <<"2", "9", ".", "9", "2">>)
        \o Elem("visibility_mi", <<"1", "0", ".", "0", "0">>))

\* values the feed writes without a fraction, with trailing zeros or signed
BodyKOMA ==
    Document(
        Elem("location", <<"O", "M", "A">>)
        \o Elem("weather", <<"S", "n", "o", "w">>)
        \o Elem("temp_f", <<"7", "2">>)
        \o Elem("temp_c", <<"2", "2", ".", "2", "0">>)
        \o Elem("relative_humidity", <<"9", "1">>)
        \o Elem("wind_string", <<"N", "W">>)
        \o Elem("dewpoint_f", <<"+", "2", "3">>)
        \o Elem("dewpoint_c", <<"-", "5", ".">>)
        \o Elem("pressure_mb", <<"0", "9", "9", "8">>)
        \o Elem("pressure_in", <<".", "5">>)
        \o Elem("visibility_mi", <<"0", ".", "2", "5">>))

\* temperatures below zero, written with a leading zero and a bare point
BodyCold ==
    Document(
        Elem("location", <<"O", "M", "A">>)
        \o Elem("weather", <<"S", "n", "o", "w">>)
        \o Elem("temp_f", <<"-", "0", ".", "4", "0">>)
        \o Elem("temp_c", <<"-", "0", "1", "8", ".">>)
        \o Elem("relative_humidity", <<"1", "0", "0">>)
        \o Elem("wind_string", <<"N", "W">>)
        \o Elem("dewpoint_f", <<"-", "4", ".", "0">>)
        \o Elem("dewpoint_c", <<"-", "2", "0", ".", "0">>)
        \o Elem("pressure_mb", <<"1", "0", "3", "0", ".", "0">>)
        \o Elem("pressure_in", <<"3", "0", ".", "4", "2">>)
        \o Elem("visibility_mi", <<"0", ".", "0", "0">>))

\* a station that reports no Celsius temperature, humidity, dewpoint (F),
\* pressure or visibility
BodyMissing ==
    Document(
        Elem("location", <<"L", "N", "K">>)
        \o Elem("weather", <<"F", "o", "g">>)
        \o Elem("temp_f", <<"7", "2", ".", "0">>)
        \o Elem("wind_string", <<"C", "a", "l", "m">>)
        \o Elem("dewpoint_c", <<"1", "2", ".", "5">>)
        \o Elem("pressure_in", <<"2", "9", ".", "9", "2">>))

\* elements present whose text is not a number
BodyNA ==
    Document(
        Elem("location", <<"O", "M", "A">>)
        \o Elem("weather", <<"N", "A">>)
        \o Elem("temp_f", <<"N", "A">>)
        \o Elem("temp_c", <<"2", "2", ".", "2">>)
        \o Elem("relative_humidity", <<"N", "A">>)
        \o Elem("wind_string", <<"N", "A">>)
        \o Elem("dewpoint_f", <<"5", "4", ".", "5">>)
        \o Elem("dewpoint_c", <<"1", ".", "2", ".", "5">>)
        \o Elem("pressure_mb", <<"-">>)
        \o Elem("pressure_in", <<"N", "A">>)
        \o Elem("visibility_mi", <<"1", "0", "m", "i">>))

\* elements present and empty
BodyEmptyElems ==
    Document(
        Elem("location", <<"L", "N", "K">>)
        \o EmptyElem("weather")
        \o EmptyElem("temp_f")
        \o Elem("temp_c", <<"2", "2", ".", "2">>)
        \o EmptyElem("relative_humidity")
        \o Elem("wind_string", <<"C", "a", "l", "m">>)
        \o Elem("dewpoint_f", <<"5", "4", ".", "5">>)
        \o Elem("dewpoint_c", <<"1", "2", ".", "5">>)
        \o EmptyElem("pressure_mb")
        \o Elem("pressure_in", <<"2", "9", ".", "9", "2">>)
        \o EmptyElem("visibility_mi"))

\* a document cut short, and a body that is no XML at all
BodyTruncated == SubSeq(BodyKLNK, 1, Len(BodyKLNK) - 2)
BodyNotXML == <<Chars(<<"N", "o", "t", " ", "F", "o", "u", "n", "d">>)>>

WellFormedBodies == {BodyKLNK, BodyKOMA, BodyCold, BodyMissing, BodyNA, BodyEmptyElems}
MalformedBodies == {BodyTruncated, BodyNotXML, <<>>}

\* requests.exceptions: the faults requests.get raises, all of them
\* subclasses of RequestException
RequestException == {"ConnectionError", "Timeout"}

\* What requests.get(url, timeout=1000) may do: answer with a status and a
\* body, or raise.
Outcomes ==
    [kind : {"response"}, status_code : {200}, text : WellFormedBodies \cup MalformedBodies,
     exc : {""}]
    \cup [kind : {"response"}, status_code : {404, 500}, text : {BodyNotXML, BodyKLNK},
          exc : {""}]
    \cup [kind : {"raise"}, status_code : {0}, text : {<<>>}, exc : RequestException]

---------------------------------------------------------------------------
(* class Weather: the fetcher, set_location and the accessors.             *)

\* read_weather_observation with `except requests.exceptions.ConnectionError`:
\* a timeout is not caught
read_weather_observation_narrow(url, outcome) ==
    IF outcome.kind = "raise"
    THEN IF outcome.exc = "ConnectionError"
         THEN [ret |-> None, raised |-> "", requests |-> 1]
         ELSE [ret |-> Unset, raised |-> outcome.exc, requests |-> 1]
    ELSE IF outcome.status_code = 200
         THEN [ret |-> Str(outcome.text), raised |-> "", requests |-> 1]
         ELSE [ret |-> None, raised |-> "", requests |-> 1]

\* read_weather_observation that tries the GET a second time when the
\* first one fails
read_weather_observation_retry(url, outcome) ==
    IF outcome.kind = "raise"
    THEN IF outcome.exc \in RequestException
         THEN [ret |-> None, raised |-> "", requests |-> 2]
         ELSE [ret |-> Unset, raised |-> outcome.exc, requests |-> 2]
    ELSE IF outcome.status_code = 200
         THEN [ret |-> Str(outcome.text), raised |-> "", requests |-> 1]
         ELSE [ret |-> None, raised |-> "", requests |-> 2]

\* read_weather_observation(url) when requests.get behaves as `outcome`:
\* the body on status 200, None on any other status and on a
\* RequestException; any other exception propagates.  requests counts the
\* requests.get calls made.
read_weather_observation(url, outcome) ==
    IF outcome.kind = "raise"
    THEN IF outcome.exc \in RequestException
         THEN [ret |-> None, raised |-> "", requests |-> 1]
         ELSE [ret |-> Unset, raised |-> outcome.exc, requests |-> 1]
    ELSE IF outcome.status_code = 200
         THEN [ret |-> Str(outcome.text), raised |-> "", requests |-> 1]
         ELSE [ret |-> None, raised |-> "", requests |-> 1]

\* f"https://w1.weather.gov/xml/current_obs/{self._location}.xml"
ObservationUrl(location) ==
    <<"https://w1.weather.gov/xml/current_obs/">> \o location.s \o <<".xml">>

\* set_location that returns quietly when there is nothing to parse or the
\* text does not parse
set_location_guarded(obj, observation_location, outcome) ==
    LET s1 == [obj EXCEPT !.location = observation_location]
        s2 == [s1 EXCEPT !.url = Str(<<"https://w1.weather.gov/xml/current_obs/">>
                                       \o s1.location.s \o <<".xml">>)]
        fetch ==
            IF outcome.kind = "response" /\ outcome.status_code = 200
            THEN Str(outcome.text) ELSE None
        s3 == [s2 EXCEPT !.raw = fetch]
        parse == fromstring(s3.raw)
    IN  IF parse.raised # ""
        THEN [obj |-> s3, raised |-> "", fetched |-> fetch,
              requests |-> 1, wrote |-> {"location", "url", "raw"}]
        ELSE [obj |-> [s3 EXCEPT !.root = parse.ret], raised |-> "", fetched |-> fetch,
              requests |-> 1, wrote |-> {"location", "url", "raw", "root"}]

\* set_location(observation_location) on the object `obj` when requests.get
\* behaves as `outcome`: the attributes afterwards, the exception that
\* left the method (if any), what the fetcher returned, the requests made
\* and the attributes assigned, statement by statement.
set_location(obj, observation_location, outcome) ==
    LET s1 == [obj EXCEPT !.location = observation_location]
        s2 == [s1 EXCEPT !.url = Str(ObservationUrl(s1.location))]
        fetch == read_weather_observation(s2.url, outcome)
        s3 == [s2 EXCEPT !.raw = fetch.ret]
        parse == fromstring(s3.raw)
        s4 == [s3 EXCEPT !.root = parse.ret]
    IN  IF fetch.raised # ""
        THEN [obj |-> s2, raised |-> fetch.raised, fetched |-> fetch.ret,
              requests |-> fetch.requests, wrote |-> {"location", "url"}]
        ELSE IF parse.raised # ""
        THEN [obj |-> s3, raised |-> parse.raised, fetched |-> fetch.ret,
              requests |-> fetch.requests, wrote |-> {"location", "url", "raw"}]
        ELSE [obj |-> s4, raised |-> "", fetched |-> fetch.ret,
              requests |-> fetch.requests, wrote |-> {"location", "url", "raw", "root"}]

\* float(self.root.find(tag).text)
FloatOf(root, tag) ==
    LET x == FindText(root, tag)
    IN  IF x.raised # ""
        THEN [raised |-> x.raised, neg |-> FALSE, mant |-> 0, scale |-> 0]
        ELSE float(x.ret)

get_location(root) == FindText(root, "location")

\* temperature with the two elements read into each other's place
temperature_swapped(root) ==
    LET temp_f == FloatOf(root, "temp_c")
        temp_c == FloatOf(root, "temp_f")
    IN  IF temp_f.raised # "" THEN Raised(temp_f.raised)
        ELSE IF temp_c.raised # "" THEN Raised(temp_c.raised)
        ELSE Returned(Str(FloatRepr(temp_f) \o <<"°", "F", " ", "(">>
                            \o FloatRepr(temp_c) \o <<"°", "C", ")">>))

temperature(root) ==
    LET temp_f == FloatOf(root, "temp_f")
        temp_c == FloatOf(root, "temp_c")
    IN  IF temp_f.raised # "" THEN Raised(temp_f.raised)
        ELSE IF temp_c.raised # "" THEN Raised(temp_c.raised)
        ELSE Returned(Str(FloatRepr(temp_f) \o <<"°", "F", " ", "(">>
                            \o FloatRepr(temp_c) \o <<"°", "C", ")">>))

\* relative_humidity.text + "%": no float() here; None + "%" is a TypeError
relative_humidity(root) ==
    LET x == FindText(root, "relative_humidity")
    IN  IF x.raised # "" THEN x
        ELSE IF x.ret.t # "str" THEN Raised("TypeError")
        ELSE Returned(Str(x.ret.s \o <<"%">>))

weather(root) == FindText(root, "weather")

wind_info(root) == FindText(root, "wind_string")

dewpoint(root) ==
    LET dewpoint_c == FloatOf(root, "dewpoint_c")
        dewpoint_f == FloatOf(root, "dewpoint_f")
    IN  IF dewpoint_c.raised # "" THEN Raised(dewpoint_c.raised)
        ELSE IF dewpoint_f.raised # "" THEN Raised(dewpoint_f.raised)
        ELSE Returned(Str(FloatRepr(dewpoint_c) \o <<"°", "C", " ", "(">>
                            \o FloatRepr(dewpoint_f) \o <<"°", "F", ")">>))

pressure(root) ==
    LET pressure_mb == FloatOf(root, "pressure_mb")
    IN  IF pressure_mb.raised # "" THEN Raised(pressure_mb.raised)
        ELSE Returned(Str(FloatRepr(pressure_mb) \o <<" ", "m", "b">>))

altimeter(root) ==
    LET altimeter_in == FloatOf(root, "pressure_in")
    IN  IF altimeter_in.raised # "" THEN Raised(altimeter_in.raised)
        ELSE Returned(Str(FloatRepr(altimeter_in) \o <<" ", "i", "n", " ", "H", "g">>))

\* weather.py:107: 1.609344 km per mile, in millionths
MicroKmPerMile == 1609344
\* digits after the point in 1.609344
KmScale == 6

\* visibility_mi * 1.609344 is formed as the exact decimal product; the
\* binary rounding of the last digits of the float product is not modelled.
visibility(root) ==
    LET visibility_mi == FloatOf(root, "visibility_mi")
        visibility_km == [visibility_mi EXCEPT !.mant = @ * MicroKmPerMile,
                                               !.scale = @ + KmScale]
    IN  IF visibility_mi.raised # "" THEN Raised(visibility_mi.raised)
        ELSE Returned(Str(FloatRepr(visibility_mi) \o <<" ", "m", "i", " ", "(">>
                            \o FloatRepr(visibility_km) \o <<" ", "k", "m", ")">>))

\* f"{value}" of a str or None
Format(v) == IF v.t = "str" THEN v.s ELSE <<"N", "o", "n", "e">>

\* __str__: the nine properties are evaluated in the order of the template
\* and the first one that raises ends the call.  The fixed labels of the
\* template are kept as one item each.
RECURSIVE Template(_, _)
Template(parts, labels) ==
    IF parts = <<>> THEN Returned(Str(<<"\n">>))
    ELSE IF parts[1].raised # "" THEN Raised(parts[1].raised)
    ELSE LET rest == Template(Tail(parts), Tail(labels))
         IN  IF rest.raised # "" THEN rest
             ELSE Returned(Str(<<"\n", labels[1]>> \o Format(parts[1].ret) \o rest.ret.s))

to_str(root) ==
    LET parts == <<get_location(root), weather(root), temperature(root), dewpoint(root),
                   relative_humidity(root), wind_info(root), visibility(root),
                   pressure(root), altimeter(root)>>
        labels == <<"Location: ", "Weather: ", "Temperature: ", "Dewpoint: ",
                    "Relative Humidity: ", "Wind: ", "Visibility: ", "Pressure: ",
                    "Altimeter: ">>
    IN  Template(parts, labels)

Accessors ==
    {"location", "temperature", "relative_humidity", "weather", "wind_info",
     "dewpoint", "pressure", "altimeter", "visibility", "__str__"}

\* the property `a` read on an object whose root attribute is `root`
Read(a, root) ==
    CASE a = "location" -> get_location(root)
      [] a = "temperature" -> temperature(root)
      [] a = "relative_humidity" -> relative_humidity(root)
      [] a = "weather" -> weather(root)
      [] a = "wind_info" -> wind_info(root)
      [] a = "dewpoint" -> dewpoint(root)
      [] a = "pressure" -> pressure(root)
      [] a = "altimeter" -> altimeter(root)
      [] a = "visibility" -> visibility(root)
      [] a = "__str__" -> to_str(root)

---------------------------------------------------------------------------
(* The object and its caller.                                              *)

NoOutcome == [kind |-> "none", status_code |-> 0, text |-> <<>>, exc |-> ""]

\* a record of one set_location: who called it ("__init__" or the caller of
\* the object), its argument, the exception that left it ("" when it
\* returned), what requests.get did and what the fetcher returned
Op(caller, arg, raised, outcome, fetched) ==
    [op |-> caller, arg |-> arg, raised |-> raised, outcome |-> outcome,
     fetched |-> fetched]

NoOp == Op("", Unset, "", NoOutcome, Unset)

NotCalled == [ret |-> Unset, raised |-> "not called"]

\* bool(observation_location), for None and str
Truthy(v) == v.t = "str" /\ v.s # <<>>

\* the call number of the set_location that assigned each attribute last
\* (0: none has)
Assigned(w, wrote, call) ==
    [a \in DOMAIN w |-> IF a \in wrote THEN call ELSE w[a]]

Init ==
    /\ phase = "new"
    /\ self = [location |-> Unset, url |-> Unset, raw |-> Unset, root |-> Unset]
    /\ gets = 0
    /\ sets = 0
    /\ reads = 0
    /\ lastSet = NoOp
    /\ seen = [a \in Accessors |-> NotCalled]
    /\ writer = [location |-> 0, url |-> 0, raw |-> 0, root |-> 0]
    /\ everBound = FALSE

\* The part of a step that runs set_location(location) while requests.get
\* behaves as outcome, called from `caller`.
RunSetLocation(caller, location, outcome) ==
    \E r \in {set_location(self, location, outcome)} :
        /\ self' = r.obj
        /\ gets' = gets + r.requests
        /\ sets' = sets + 1
        /\ reads' = 0
        /\ lastSet' = Op(caller, location, r.raised, outcome, r.fetched)
        /\ seen' = [a \in Accessors |-> NotCalled]
        /\ writer' = Assigned(writer, r.wrote, sets + 1)
        /\ everBound' = (everBound \/ r.raised = "")
        /\ phase' = IF caller = "__init__" /\ r.raised # "" THEN "dead" ELSE "live"

\* Weather(observation_location): weather.py:16-22.  An exception leaving
\* set_location leaves the constructor, and the caller gets no object.
Construct(observation_location) ==
    /\ phase = "new"
    /\ IF Truthy(observation_location)
       THEN \E outcome \in Outcomes :
                RunSetLocation("__init__", observation_location, outcome)
       ELSE /\ self' = [self EXCEPT !.location = None, !.url = None, !.raw = None]
            /\ phase' = "live"
            /\ UNCHANGED <<gets, sets, reads, lastSet, seen, writer, everBound>>

\* obj.location = observation_location (or obj.set_location(...)):
\* weather.py:43-52.
SetLocation(observation_location) ==
    /\ phase = "live"
    /\ sets < MaxSets
    /\ \E outcome \in Outcomes :
           RunSetLocation("set_location", observation_location, outcome)

\* an accessor that drops the raw document once it has read the tree
AccessDroppingRaw(a) ==
    /\ phase = "live"
    /\ reads < MaxReads
    /\ seen' = [seen EXCEPT ![a] = Read(a, self.root)]
    /\ reads' = reads + 1
    /\ self' = [self EXCEPT !.raw = None]
    /\ UNCHANGED <<phase, gets, sets, lastSet, writer, everBound>>

\* reading one of the properties, or str(obj): weather.py:54-122.
Access(a) ==
    /\ phase = "live"
    /\ reads < MaxReads
    /\ seen' = [seen EXCEPT ![a] = Read(a, self.root)]
    /\ reads' = reads + 1
    /\ UNCHANGED <<phase, self, gets, sets, lastSet, writer, everBound>>

Next ==
    \/ \E arg \in {None, Str(<<>>)} \cup {Str(c) : c \in LOCATIONS} : Construct(arg)
    \/ \E c \in LOCATIONS : SetLocation(Str(c))
    \/ \E a \in Accessors : Access(a)

Spec == Init /\ [][Next]_vars

---------------------------------------------------------------------------
(* Vocabulary of the properties.                                           *)

HasTree == self.root.t = "Element"
Called(a) == seen[a] # NotCalled
FetchOk(o) == o.kind = "response" /\ o.status_code = 200

\* the elements each numeric accessor reads
NumericFields ==
    [a \in {"temperature", "relative_humidity", "dewpoint", "pressure", "altimeter",
            "visibility"} |->
        CASE a = "temperature" -> {"temp_f", "temp_c"}
          [] a = "relative_humidity" -> {"relative_humidity"}
          [] a = "dewpoint" -> {"dewpoint_c", "dewpoint_f"}
          [] a = "pressure" -> {"pressure_mb"}
          [] a = "altimeter" -> {"pressure_in"}
          [] a = "visibility" -> {"visibility_mi"}]

Absent(root, tag) == find(root, tag).ret.t # "Element"
NotANumber(root, tag) == ~Absent(root, tag) /\ float(find(root, tag).ret.text).raised # ""

\* the exceptions some accessor raises on some parsed feed document
BoundErrors ==
    {Read(a, fromstring(Str(b)).ret).raised : a \in Accessors, b \in WellFormedBodies}
        \ {""}

\* a decimal as f"{x}" writes it: [-] digits . digits, no leading zero
\* before another digit and no trailing zero after another fraction digit
Canonical(t) ==
    LET body == IF Len(t) > 0 /\ t[1] = "-" THEN Tail(t) ELSE t
        dots == {i \in 1..Len(body) : body[i] = "."}
    IN  /\ Cardinality(dots) = 1
        /\ \A i \in 1..Len(body) : body[i] \in Digits \cup {"."}
        /\ LET dot == CHOOSE i \in dots : TRUE
           IN  /\ dot > 1
               /\ dot < Len(body)
               /\ (dot > 2 => body[1] # "0")
               /\ (dot < Len(body) - 1 => body[Len(body)] # "0")

\* two decimal texts that write the same number
SameNumber(t, u) ==
    LET x == float(Str(t))
        y == float(Str(u))
    IN  /\ x.raised = ""
        /\ y.raised = ""
        /\ x.mant * Pow10(y.scale) = y.mant * Pow10(x.scale)
        /\ (x.mant # 0 => x.neg = y.neg)

\* the index of the first item c of text t at or after index i (0: none)
IndexFrom(t, c, i) ==
    LET hits == {k \in i..Len(t) : t[k] = c}
    IN  IF hits = {} THEN 0 ELSE CHOOSE k \in hits : \A j \in hits : k <= j

---------------------------------------------------------------------------
(* The claims.                                                             *)

\* C1: a set_location that fails on an object the caller holds leaves the
\* stored station, URL, raw document and parsed tree as they were before
\* the call.
C1_FailingSetKeepsState ==
    [][(phase = "live" /\ sets' = sets + 1 /\ lastSet'.raised # "") => self' = self]_vars

\* C2: the object holds a parsed tree exactly when the most recent
\* set_location fetched with status 200 a well-formed document; in every
\* other state the accessors that were called have failed.
C2_TreeIffLastSetSucceeded ==
    phase = "live" =>
        LET ok == /\ lastSet.op # ""
                  /\ FetchOk(lastSet.outcome)
                  /\ lastSet.outcome.text \in WellFormedBodies
        IN  /\ HasTree <=> ok
            /\ ~ok => \A a \in Accessors : Called(a) => seen[a].raised # ""

\* C3: on an object no set_location has ever succeeded on, every accessor
\* called has failed, with an error of its own: one that no accessor raises
\* on a bound object for a missing or malformed field.
C3_UnboundAccessRaisesDedicatedError ==
    (phase = "live" /\ ~everBound) =>
        \A a \in Accessors :
            Called(a) => (seen[a].raised # "" /\ seen[a].raised \notin BoundErrors)

\* C4: between operations the stored station, raw document and parsed tree
\* were assigned by the same set_location call, the raw document is the one
\* that call fetched, and the tree is the parse of the stored raw document.
C4_StationDocumentTreeOfOneCall ==
    phase = "live" =>
        /\ writer.location = writer.raw
        /\ writer.raw = writer.root
        /\ HasTree => /\ fromstring(self.raw).raised = ""
                      /\ fromstring(self.raw).ret = self.root
                      /\ self.location = lastSet.arg
                      /\ self.raw = Str(lastSet.outcome.text)

\* C5: the fetcher returns the body exactly when the GET answered with
\* status 200, returns None for every other status and for every fault
\* requests.get raises, and never lets an exception out.
C5_FetcherTotal ==
    lastSet.op # "" =>
        /\ lastSet.fetched = (IF FetchOk(lastSet.outcome)
                              THEN Str(lastSet.outcome.text) ELSE None)
        /\ lastSet.raised \notin RequestException

C5_Witness ==
    /\ lastSet.outcome.kind = "raise"
    /\ lastSet.outcome.exc = "Timeout"
    /\ lastSet.fetched = None

\* C6: set_location ends with ParseError when status 200 brought a text
\* that is not XML, and with another exception when the fetch failed; in
\* neither case does it return.
C6_ParseErrorDistinctFromFetchFailure ==
    lastSet.op # "" =>
        /\ (FetchOk(lastSet.outcome) /\ lastSet.outcome.text \in MalformedBodies)
               => lastSet.raised = "ParseError"
        /\ ~FetchOk(lastSet.outcome) => lastSet.raised \notin {"", "ParseError"}

C6_Witness ==
    /\ phase = "live"
    /\ FetchOk(lastSet.outcome)
    /\ lastSet.outcome.text = BodyNotXML
    /\ lastSet.raised = "ParseError"
    /\ sets = 2

\* C7: on an object with a parsed tree, a numeric accessor returns only
\* when every element it reads is present and holds a number; it fails with
\* one error when an element is absent and with a different error when an
\* element is present but holds no number.
C7_NumericAccessorsReturnNumbersOrFail ==
    (phase = "live" /\ HasTree) =>
        \A a \in DOMAIN NumericFields :
            Called(a) =>
                LET absent == \E tag \in NumericFields[a] : Absent(self.root, tag)
                    nan == \E tag \in NumericFields[a] : NotANumber(self.root, tag)
                IN  /\ seen[a].raised = "" <=> (~absent /\ ~nan)
                    /\ (absent /\ ~nan) => seen[a].raised = "AttributeError"
                    /\ (nan /\ ~absent) => seen[a].raised \in {"ValueError", "TypeError"}

\* C8: the number of GET requests issued equals the number of set_location
\* invocations (the constructor's included), after successes, failures and
\* accessor calls alike.
C8_OneGetPerSetLocation == gets = sets

C8_Witness ==
    /\ sets = 2
    /\ gets = 2
    /\ reads > 0
    /\ ~FetchOk(lastSet.outcome)
    /\ everBound

\* C9: an accessor call on an object with a parsed tree leaves the stored
\* station, URL, raw document and parsed tree unchanged and issues no
\* request, and every accessor already called since the last set_location
\* ends as it did before.
C9_AccessorsReadOnly ==
    [][(reads' = reads + 1 /\ HasTree) =>
          /\ self' = self
          /\ gets' = gets
          /\ \A a \in Accessors : Called(a) => seen'[a] = seen[a]]_vars

\* the same accessor has been called twice on a bound object
C9_Witness ==
    /\ HasTree
    /\ reads = 2
    /\ Cardinality({a \in Accessors : Called(a)}) = 1
    /\ seen["__str__"].raised = ""
    /\ Called("__str__")

TempText(tag) == FindText(self.root, tag).ret.s

TemperatureCase ==
    /\ phase = "live"
    /\ HasTree
    /\ Called("temperature")
    /\ ~Absent(self.root, "temp_f") /\ ~NotANumber(self.root, "temp_f")
    /\ ~Absent(self.root, "temp_c") /\ ~NotANumber(self.root, "temp_c")

\* C10 as stated: with numeric temp_f and temp_c, temperature() is the text
\* of temp_f, "°F (", the text of temp_c, "°C)", each text as the document
\* carries it.
C10_TemperaturePassesTextThrough ==
    TemperatureCase =>
        seen["temperature"] =
            Returned(Str(TempText("temp_f") \o <<"°", "F", " ", "(">>
                           \o TempText("temp_c") \o <<"°", "C", ")">>))

\* C10 as amended: with numeric temp_f and temp_c, temperature() is
\* "<F>°F (<C>°C)" where <F> and <C> are canonical decimals writing the
\* numbers of temp_f and temp_c, Fahrenheit first; the document's text is
\* passed through unchanged when it is already canonical.
C10_TemperatureRendersValues ==
    TemperatureCase =>
        LET r == seen["temperature"]
            t == r.ret.s
            i == IndexFrom(t, "°", 1)
            j == IndexFrom(t, "°", i + 1)
            F == SubSeq(t, 1, i - 1)
            C == SubSeq(t, i + 4, j - 1)
        IN  /\ r.raised = ""
            /\ i > 0 /\ j > i + 4
            /\ t = F \o <<"°", "F", " ", "(">> \o C \o <<"°", "C", ")">>
            /\ Canonical(F) /\ SameNumber(F, TempText("temp_f"))
            /\ Canonical(C) /\ SameNumber(C, TempText("temp_c"))
            /\ Canonical(TempText("temp_f")) => F = TempText("temp_f")
            /\ Canonical(TempText("temp_c")) => C = TempText("temp_c")

\* temp_f 72 and temp_c 22.20 give "72.0°F (22.2°C)"
C10_Witness ==
    /\ TemperatureCase
    /\ TempText("temp_f") = <<"7", "2">>
    /\ TempText("temp_c") = <<"2", "2", ".", "2", "0">>
    /\ seen["temperature"].ret.s =
           <<"7", "2", ".", "0", "°", "F", " ", "(", "2", "2", ".", "2", "°", "C", ")">>

=============================================================================
